---- MODULE Spec2Model ----
(***************************************************************************)
(* Model of pytensordock's TensorDockWrapper (src/src/pytensordock/api.py). *)
(*                                                                         *)
(* A Python value is a tagged record: the tag t is the Python type, and    *)
(* one payload field holds the value.  A str is a sequence of one-letter   *)
(* strings, so that str(), lower(), join() and + are computed letter by    *)
(* letter as Python computes them.                                         *)
(*                                                                         *)
(* One step of the model is one call of a public method on the client      *)
(* `self`, together with the same call, with the same arguments and the    *)
(* same answer of the HTTP transport, on the client `twin`, which was      *)
(* constructed from the same credentials with the opposite debug flag.     *)
(***************************************************************************)
EXTENDS Integers, Sequences, FiniteSets, TLC

VARIABLES ctor, self, twin, last, twinlast, ncalls, nfail, nsent

vars == <<ctor, self, twin, last, twinlast, ncalls, nfail, nsent>>

(***************************************************************************)
(* Bounds of the model.                                                    *)
(***************************************************************************)
\* calls made on one client in one behaviour
MaxCalls == 2
\* length of a port list given to deploy_machine
MaxPorts == 2

(***************************************************************************)
(* Python values.                                                          *)
(***************************************************************************)
None == [t |-> "NoneType"]
PyStr(chars) == [t |-> "str", s |-> chars]
PyInt(n) == [t |-> "int", i |-> n]
PyBool(b) == [t |-> "bool", b |-> b]
PyDict(d) == [t |-> "dict", d |-> d]

IsTrue(x) == x.t = "bool" /\ x.b

DigitChars == <<"0", "1", "2", "3", "4", "5", "6", "7", "8", "9">>

\* the decimal text of a natural number, as str(int) writes it
RECURSIVE IntChars(_)
IntChars(n) ==
    IF n < 10 THEN <<DigitChars[n + 1]>>
    ELSE Append(IntChars(n \div 10), DigitChars[(n % 10) + 1])

\* Python's str(x)
str(x) ==
    CASE x.t = "str" -> x
      [] x.t = "int" -> PyStr(IntChars(x.i))
      [] x.t = "bool" -> PyStr(IF x.b THEN <<"T","r","u","e">> ELSE <<"F","a","l","s","e">>)
      [] x.t = "NoneType" -> PyStr(<<"N","o","n","e">>)

UpperChars == <<"A","B","C","D","E","F","G","H","I","J","K","L","M","N","O","P","Q","R","S","T","U","V","W","X","Y","Z">>
LowerChars == <<"a","b","c","d","e","f","g","h","i","j","k","l","m","n","o","p","q","r","s","t","u","v","w","x","y","z">>

LowerChar(c) ==
    IF \E k \in DOMAIN UpperChars : UpperChars[k] = c
    THEN LowerChars[CHOOSE k \in DOMAIN UpperChars : UpperChars[k] = c]
    ELSE c

\* Python's str.lower()
lower(x) == PyStr([k \in DOMAIN x.s |-> LowerChar(x.s[k])])

\* Python's a + b on two str
add(a, b) == PyStr(a.s \o b.s)

\* Python's map(str, xs) on a list
map_str(xs) == [k \in DOMAIN xs |-> str(xs[k])]

RECURSIVE JoinChars(_, _)
JoinChars(sep, xs) ==
    IF Len(xs) = 0 THEN <<>>
    ELSE IF Len(xs) = 1 THEN xs[1].s
    ELSE xs[1].s \o sep.s \o JoinChars(sep, Tail(xs))

\* a join that writes the elements last to first
join_reversed(sep, xs) == PyStr(JoinChars(sep, [k \in DOMAIN xs |-> xs[Len(xs) + 1 - k]]))

\* Python's sep.join(xs)
join(sep, xs) == PyStr(JoinChars(sep, xs))

\* "{" + ", ".join(map(str, ports)) + "}"
port_field(ports) ==
    add(add(PyStr(<<"{">>), join(PyStr(<<",", " ">>), map_str(ports))), PyStr(<<"}">>))

(***************************************************************************)
(* String constants of the source.                                         *)
(***************************************************************************)
BaseUrl == PyStr(<<"h","t","t","p","s",":","/","/","m","a","r","k","e","t","p","l","a","c","e",".","t","e","n","s","o","r","d","o","c","k",".","c","o","m","/","a","p","i","/","v","0","/">>)
GET == PyStr(<<"G","E","T">>)
POST == PyStr(<<"P","O","S","T">>)
StopEndpoint == PyStr(<<"c","l","i","e","n","t","/","s","t","o","p","/","s","i","n","g","l","e">>)
StartEndpoint == PyStr(<<"c","l","i","e","n","t","/","s","t","a","r","t","/","s","i","n","g","l","e">>)
ModifyEndpoint == PyStr(<<"c","l","i","e","n","t","/","m","o","d","i","f","y","/","s","i","n","g","l","e">>)
DeleteEndpoint == PyStr(<<"c","l","i","e","n","t","/","d","e","l","e","t","e","/","s","i","n","g","l","e">>)
ListEndpoint == PyStr(<<"c","l","i","e","n","t","/","l","i","s","t">>)
GetEndpoint == PyStr(<<"c","l","i","e","n","t","/","g","e","t","/","s","i","n","g","l","e">>)
SpotValidateEndpoint == PyStr(<<"c","l","i","e","n","t","/","s","p","o","t","/","v","a","l","i","d","a","t","e","/","n","e","w">>)
DeployEndpoint == PyStr(<<"c","l","i","e","n","t","/","d","e","p","l","o","y","/","s","i","n","g","l","e">>)
HostnodesEndpoint == PyStr(<<"c","l","i","e","n","t","/","d","e","p","l","o","y","/","h","o","s","t","n","o","d","e","s">>)
AuthListEndpoint == PyStr(<<"a","u","t","h","/","l","i","s","t">>)
BalanceEndpoint == PyStr(<<"b","i","l","l","i","n","g","/","b","a","l","a","n","c","e">>)
AuthTestEndpoint == PyStr(<<"a","u","t","h","/","t","e","s","t">>)

(***************************************************************************)
(* The client.                                                             *)
(***************************************************************************)
__init__(api_key, api_token, debug) ==
    [base_url |-> BaseUrl, api_key |-> api_key, api_token |-> api_token, debug |-> debug]

(***************************************************************************)
(* The HTTP transport, requests.request, answers a request with an         *)
(* outcome: a response (status, body, and the text of the exception that   *)
(* raise_for_status or json would raise on it), or an exception raised     *)
(* while the request is sent.                                              *)
(***************************************************************************)
\* Response.raise_for_status raises HTTPError on a 4xx or 5xx status
raise_for_status_raises(outcome) == 400 <= outcome.status /\ outcome.status < 600

\* url = self.base_url + endpoint
request_url(this, endpoint) == add(this.base_url, endpoint)

\* A call in progress or finished: the client after it, the requests handed to
\* requests.request, the exception that left the method ("none" when it
\* returned), the value returned, and the number of print calls made.
Returned(this, sent, ret, printed) ==
    [self |-> this, sent |-> sent, raised |-> "none", ret |-> ret, printed |-> printed]

Raised(this, sent, exc, printed) ==
    [self |-> this, sent |-> sent, raised |-> exc, ret |-> None, printed |-> printed]

\* a _send_request that keeps the url it built in self.base_url
_send_request_keeps_url(this, method, endpoint, payload, params, outcome) ==
    LET url == request_url(this, endpoint)
        req == [method |-> method, url |-> url, data |-> payload, params |-> params]
        kept == [this EXCEPT !.base_url = url]
    IN  IF outcome.kind = "exception" THEN Raised(kept, <<req>>, outcome.exc, 0)
        ELSE IF raise_for_status_raises(outcome) \/ ~outcome.isjson
             THEN Returned(kept, <<req>>, PyDict([error |-> str(outcome.msg)]), 1)
             ELSE Returned(kept, <<req>>, outcome.body, 0)

_send_request(this, method, endpoint, payload, params, outcome) ==
    LET url == request_url(this, endpoint)
        req == [method |-> method, url |-> url, data |-> payload, params |-> params]
    IN  IF outcome.kind = "exception"
        THEN \* requests.request raises before the try block is entered
             Raised(this, <<req>>, outcome.exc, 0)
        ELSE IF raise_for_status_raises(outcome)
             THEN \* except RequestException: print, return {"error": str(e)}
                  Returned(this, <<req>>, PyDict([error |-> str(outcome.msg)]), 1)
             ELSE IF ~outcome.isjson
                  THEN \* response.json() raises; whether the except clause
                       \* catches it depends on the class the installed
                       \* requests raises
                       IF outcome.json_error_is_request_exception
                       THEN Returned(this, <<req>>, PyDict([error |-> str(outcome.msg)]), 1)
                       ELSE Raised(this, <<req>>, "JSONDecodeError", 0)
                  ELSE Returned(this, <<req>>, outcome.body, 0)

\* _parse_response prints json.dumps(response, indent=2) and returns nothing
_parse_response(r) ==
    IF r.raised # "none" THEN r
    ELSE [r EXCEPT !.printed = @ + 1, !.ret = None]

\* a tail that keeps what _parse_response returned
return_response_parsed(r) ==
    IF r.raised # "none" THEN r
    ELSE IF IsTrue(r.self.debug) THEN _parse_response(r)
    ELSE r

\* if self.debug: self._parse_response(response)
\* return response
return_response(r) ==
    IF r.raised # "none" THEN r
    ELSE IF IsTrue(r.self.debug)
         THEN [r EXCEPT !.printed = _parse_response(r).printed]
         ELSE r

(***************************************************************************)
(* The public methods.  Each takes the client, its arguments and the       *)
(* outcome of the transport, and gives the finished call.                  *)
(***************************************************************************)
stop_server(this, server_uuid, disassociate_resources, outcome) ==
    LET payload == PyDict([api_key |-> this.api_key,
                           api_token |-> this.api_token,
                           server |-> server_uuid,
                           disassociate_resources |-> lower(str(disassociate_resources))])
    IN  return_response(_send_request(this, POST, StopEndpoint, payload, None, outcome))

start_server(this, vm_uuid, outcome) ==
    LET payload == PyDict([api_key |-> this.api_key, api_token |-> this.api_token, server |-> vm_uuid])
    IN  return_response(_send_request(this, POST, StartEndpoint, payload, None, outcome))

modify_server(this, server_uuid, gpu_model, gpu_count, ram, vcpus, storage, outcome) ==
    LET payload == PyDict([api_key |-> this.api_key,
                           api_token |-> this.api_token,
                           server_id |-> server_uuid,
                           gpu_model |-> gpu_model,
                           gpu_count |-> str(gpu_count),
                           ram |-> str(ram),
                           vcpus |-> str(vcpus),
                           storage |-> str(storage)])
    IN  return_response(_send_request(this, POST, ModifyEndpoint, payload, None, outcome))

delete_server(this, server_uuid, outcome) ==
    LET payload == PyDict([api_key |-> this.api_key, api_token |-> this.api_token, server |-> server_uuid])
    IN  return_response(_send_request(this, POST, DeleteEndpoint, payload, None, outcome))

list_virtual_machines(this, outcome) ==
    LET payload == PyDict([api_key |-> this.api_key, api_token |-> this.api_token])
    IN  return_response(_send_request(this, POST, ListEndpoint, payload, None, outcome))

get_vm_details(this, server_uuid, outcome) ==
    LET payload == PyDict([api_key |-> this.api_key, api_token |-> this.api_token, server |-> server_uuid])
    IN  return_response(_send_request(this, POST, GetEndpoint, payload, None, outcome))

soft_validate_new_spot_instance(this, gpu_count, gpu_model, vcpus, hostnode, ram, storage, price, outcome) ==
    LET payload == PyDict([gpu_count |-> str(gpu_count),
                           gpu_model |-> gpu_model,
                           vcpus |-> str(vcpus),
                           hostnode |-> hostnode,
                           ram |-> str(ram),
                           storage |-> str(storage),
                           price |-> str(price),
                           api_key |-> this.api_key,
                           api_token |-> this.api_token])
    IN  return_response(_send_request(this, POST, SpotValidateEndpoint, payload, None, outcome))

soft_validate_existing_spot_instance(this, server, price, outcome) ==
    LET payload == PyDict([server |-> server,
                           price |-> str(price),
                           api_key |-> this.api_key,
                           api_token |-> this.api_token])
    IN  return_response(_send_request(this, POST, SpotValidateEndpoint, payload, None, outcome))

\* a holds the arguments of deploy_machine by name
deploy_machine(this, a, outcome) ==
    LET payload == PyDict([api_key |-> this.api_key,
                           api_token |-> this.api_token,
                           name |-> a.name,
                           gpu_count |-> str(a.gpu_count),
                           gpu_model |-> a.gpu_model,
                           vcpus |-> str(a.vcpus),
                           ram |-> str(a.ram),
                           external_ports |-> port_field(a.external_ports),
                           internal_ports |-> port_field(a.internal_ports),
                           hostnode |-> a.hostnode,
                           storage |-> str(a.storage),
                           operating_system |-> a.operating_system,
                           password |-> a.password,
                           deployment_type |-> a.deployment_type,
                           cpu_model |-> a.cpu_model,
                           location |-> a.location,
                           cloudinit_script |-> a.cloudinit_script,
                           price_type |-> a.price_type,
                           price |-> str(a.price)])
    IN  return_response(_send_request(this, POST, DeployEndpoint, payload, None, outcome))

\* a holds the arguments of list_available_hostnodes by name
list_available_hostnodes(this, a, outcome) ==
    LET params == PyDict([api_key |-> this.api_key,
                          api_token |-> this.api_token,
                          minvCPUs |-> a.min_vcpus,
                          minRAM |-> a.min_ram,
                          minStorage |-> a.min_storage,
                          minVRAM |-> a.min_vram,
                          minGPUCount |-> a.min_gpu_count,
                          requiresRTX |-> a.requires_rtx,
                          requiresGTX |-> a.requires_gtx])
        response == _parse_response(_send_request(this, GET, HostnodesEndpoint, None, params, outcome))
    IN  return_response(response)

list_authorizations(this, outcome) ==
    LET payload == PyDict([api_key |-> this.api_key, api_token |-> this.api_token])
    IN  return_response(_send_request(this, POST, AuthListEndpoint, payload, None, outcome))

retrieve_balance(this, outcome) ==
    LET payload == PyDict([api_key |-> this.api_key, api_token |-> this.api_token])
    IN  return_response(_send_request(this, POST, BalanceEndpoint, payload, None, outcome))

test_authorization(this, outcome) ==
    LET payload == PyDict([api_key |-> this.api_key, api_token |-> this.api_token])
    IN  return_response(_send_request(this, POST, AuthTestEndpoint, payload, None, outcome))

\* an endpoint that leaves the id out
hostnode_endpoint_no_id(id) == HostnodesEndpoint

\* f"client/deploy/hostnodes/{id}"
hostnode_endpoint(id) == add(add(HostnodesEndpoint, PyStr(<<"/">>)), str(id))

get_specific_hostnode(this, id, outcome) ==
    LET response == _parse_response(_send_request(this, GET, hostnode_endpoint(id), None, None, outcome))
    IN  return_response(response)

(***************************************************************************)
(* Inputs: the arguments of the constructor and of the calls, and the      *)
(* outcomes of the transport.                                              *)
(***************************************************************************)
Constructions ==
    { [api_key |-> PyStr(<<"k","e","y","A">>), api_token |-> PyStr(<<"t","o","k","A">>),
       debug |-> PyBool(FALSE)],
      [api_key |-> PyStr(<<"k","e","y","B">>), api_token |-> PyStr(<<"t","o","k","B">>),
       debug |-> PyBool(TRUE)] }

ServerUuid == PyStr(<<"v","m","-","1">>)
HostnodeIds == { PyStr(<<"a","b","c","-","1","2","3">>), PyStr(<<"n","7">>) }
Booleans == { PyBool(TRUE), PyBool(FALSE) }
GpuModel == PyStr(<<"a","1","0","0">>)
Ports == { PyInt(80), PyInt(443) }
PortLists == UNION { [1..n -> Ports] : n \in 0..MaxPorts }
Reversed(xs) == [k \in DOMAIN xs |-> xs[Len(xs) + 1 - k]]

\* deploy_machine with its optional arguments omitted (their defaults), forwarding
\* each port to itself, or with them given, forwarding the ports crosswise
DeployOptions ==
    { [deployment_type |-> PyStr(<<"l","o","c","a","l">>), cpu_model |-> None, location |-> None,
       cloudinit_script |-> None, price_type |-> None, price |-> None, crosswise |-> FALSE],
      [deployment_type |-> PyStr(<<"n","e","t","w","o","r","k">>), cpu_model |-> PyStr(<<"e","p","y","c">>),
       location |-> PyStr(<<"N","Y","C">>), cloudinit_script |-> PyStr(<<"l","s">>),
       price_type |-> PyStr(<<"s","p","o","t">>), price |-> PyInt(25), crosswise |-> TRUE] }

DeployArgs ==
    { [name |-> PyStr(<<"b","o","x">>), gpu_count |-> PyInt(1), gpu_model |-> GpuModel,
       vcpus |-> PyInt(4), ram |-> PyInt(16),
       external_ports |-> x[1],
       internal_ports |-> IF x[2].crosswise THEN Reversed(x[1]) ELSE x[1],
       hostnode |-> PyStr(<<"a","b","c","-","1","2","3">>), storage |-> PyInt(100),
       operating_system |-> PyStr(<<"U","b","u","n","t","u">>), password |-> PyStr(<<"p","w">>),
       deployment_type |-> x[2].deployment_type, cpu_model |-> x[2].cpu_model,
       location |-> x[2].location, cloudinit_script |-> x[2].cloudinit_script,
       price_type |-> x[2].price_type, price |-> x[2].price]
      : x \in PortLists \X DeployOptions }

\* list_available_hostnodes with its integer filters and requires_gtx omitted or
\* given, and requires_rtx omitted, True or False
HostnodeArgs ==
    { [min_vcpus |-> x[1].min_vcpus, min_ram |-> x[1].min_ram, min_storage |-> x[1].min_storage,
       min_vram |-> x[1].min_vram, min_gpu_count |-> x[1].min_gpu_count,
       requires_rtx |-> x[2], requires_gtx |-> x[1].requires_gtx]
      : x \in
          { [min_vcpus |-> None, min_ram |-> None, min_storage |-> None, min_vram |-> None,
             min_gpu_count |-> None, requires_gtx |-> None],
            [min_vcpus |-> PyInt(4), min_ram |-> PyInt(16), min_storage |-> PyInt(100),
             min_vram |-> PyInt(24), min_gpu_count |-> PyInt(1), requires_gtx |-> PyBool(FALSE)] }
          \X (Booleans \cup {None}) }

JsonBodies ==
    { PyDict([success |-> PyBool(TRUE)]),
      PyDict([success |-> PyBool(FALSE)]) }

Response(status, isjson, body, msg, caught) ==
    [kind |-> "response", status |-> status, isjson |-> isjson, body |-> body, msg |-> msg,
     exc |-> "none", json_error_is_request_exception |-> caught]

TransportError(exc) ==
    [kind |-> "exception", status |-> 0, isjson |-> FALSE, body |-> None, msg |-> PyStr(<<>>),
     exc |-> exc, json_error_is_request_exception |-> FALSE]

NoText == PyStr(<<>>)
ServerErrorText == PyStr(<<"5","0","0"," ","S","e","r","v","e","r"," ","E","r","r","o","r">>)
JsonErrorText == PyStr(<<"E","x","p","e","c","t","i","n","g"," ","v","a","l","u","e">>)

Outcomes ==
    { Response(200, TRUE, b, NoText, FALSE) : b \in JsonBodies }
    \cup { Response(304, TRUE, PyDict([success |-> PyBool(TRUE)]), NoText, FALSE),
           Response(200, FALSE, None, JsonErrorText, TRUE),
           Response(200, FALSE, None, JsonErrorText, FALSE),
           Response(500, FALSE, None, ServerErrorText, FALSE),
           TransportError("ConnectionError"),
           TransportError("Timeout") }

\* the transport answered with a 2xx status and a JSON body
Succeeded(outcome) ==
    outcome.kind = "response" /\ outcome.status \in 200..299 /\ outcome.isjson

(***************************************************************************)
(* The state machine.                                                      *)
(***************************************************************************)
NoCall ==
    [op |-> "none", args |-> <<>>, outcome |-> TransportError("none"), sent |-> <<>>,
     raised |-> "none", ret |-> None, printed |-> 0]

\* what a call gave back to its caller
Result(r) == [raised |-> r.raised, ret |-> r.ret, printed |-> r.printed]

NoResult == [raised |-> "none", ret |-> None, printed |-> 0]

Finished(op, args, outcome, r) ==
    [op |-> op, args |-> args, outcome |-> outcome, sent |-> r.sent,
     raised |-> r.raised, ret |-> r.ret, printed |-> r.printed]

Init ==
    \E c \in Constructions :
        /\ ctor = c
        /\ self = __init__(c.api_key, c.api_token, c.debug)
        /\ twin = __init__(c.api_key, c.api_token, PyBool(~c.debug.b))
        /\ last = NoCall
        /\ twinlast = NoResult
        /\ ncalls = 0
        /\ nfail = 0
        /\ nsent = 0

\* one call: called is the call on self, twincalled the same call on twin
Call(op, args, outcome, called, twincalled) ==
    /\ ncalls < MaxCalls
    /\ \E r \in {called}, rt \in {twincalled} :
        /\ self' = r.self
        /\ twin' = rt.self
        /\ last' = Finished(op, args, outcome, r)
        /\ twinlast' = Result(rt)
        /\ nsent' = nsent + Len(r.sent)
    /\ ncalls' = ncalls + 1
    /\ nfail' = IF Succeeded(outcome) THEN nfail ELSE nfail + 1
    /\ UNCHANGED ctor

Do_stop_server ==
    \E d \in Booleans, o \in Outcomes :
        Call("stop_server", [server_uuid |-> ServerUuid, disassociate_resources |-> d], o,
             stop_server(self, ServerUuid, d, o), stop_server(twin, ServerUuid, d, o))

Do_start_server ==
    \E o \in Outcomes :
        Call("start_server", <<>>, o,
             start_server(self, ServerUuid, o), start_server(twin, ServerUuid, o))

Do_modify_server ==
    \E o \in Outcomes :
        Call("modify_server", <<>>, o,
             modify_server(self, ServerUuid, GpuModel, PyInt(2), PyInt(32), PyInt(8), PyInt(200), o),
             modify_server(twin, ServerUuid, GpuModel, PyInt(2), PyInt(32), PyInt(8), PyInt(200), o))

Do_delete_server ==
    \E o \in Outcomes :
        Call("delete_server", <<>>, o,
             delete_server(self, ServerUuid, o), delete_server(twin, ServerUuid, o))

Do_list_virtual_machines ==
    \E o \in Outcomes :
        Call("list_virtual_machines", <<>>, o,
             list_virtual_machines(self, o), list_virtual_machines(twin, o))

Do_get_vm_details ==
    \E o \in Outcomes :
        Call("get_vm_details", <<>>, o,
             get_vm_details(self, ServerUuid, o), get_vm_details(twin, ServerUuid, o))

Do_soft_validate_new_spot_instance ==
    \E o \in Outcomes :
        Call("soft_validate_new_spot_instance", <<>>, o,
             soft_validate_new_spot_instance(self, PyInt(1), GpuModel, PyInt(4), PyStr(<<"a","b","c","-","1","2","3">>), PyInt(16), PyInt(100), PyInt(25), o),
             soft_validate_new_spot_instance(twin, PyInt(1), GpuModel, PyInt(4), PyStr(<<"a","b","c","-","1","2","3">>), PyInt(16), PyInt(100), PyInt(25), o))

Do_soft_validate_existing_spot_instance ==
    \E o \in Outcomes :
        Call("soft_validate_existing_spot_instance", <<>>, o,
             soft_validate_existing_spot_instance(self, ServerUuid, PyInt(25), o),
             soft_validate_existing_spot_instance(twin, ServerUuid, PyInt(25), o))

Do_deploy_machine ==
    \E a \in DeployArgs, o \in Outcomes :
        Call("deploy_machine", a, o, deploy_machine(self, a, o), deploy_machine(twin, a, o))

Do_list_available_hostnodes ==
    \E a \in HostnodeArgs, o \in Outcomes :
        Call("list_available_hostnodes", a, o,
             list_available_hostnodes(self, a, o), list_available_hostnodes(twin, a, o))

Do_list_authorizations ==
    \E o \in Outcomes :
        Call("list_authorizations", <<>>, o,
             list_authorizations(self, o), list_authorizations(twin, o))

Do_retrieve_balance ==
    \E o \in Outcomes :
        Call("retrieve_balance", <<>>, o, retrieve_balance(self, o), retrieve_balance(twin, o))

Do_test_authorization ==
    \E o \in Outcomes :
        Call("test_authorization", <<>>, o,
             test_authorization(self, o), test_authorization(twin, o))

Do_get_specific_hostnode ==
    \E id \in HostnodeIds, o \in Outcomes :
        Call("get_specific_hostnode", [id |-> id], o,
             get_specific_hostnode(self, id, o), get_specific_hostnode(twin, id, o))

Next ==
    \/ Do_stop_server
    \/ Do_start_server
    \/ Do_modify_server
    \/ Do_delete_server
    \/ Do_list_virtual_machines
    \/ Do_get_vm_details
    \/ Do_soft_validate_new_spot_instance
    \/ Do_soft_validate_existing_spot_instance
    \/ Do_deploy_machine
    \/ Do_list_available_hostnodes
    \/ Do_list_authorizations
    \/ Do_retrieve_balance
    \/ Do_test_authorization
    \/ Do_get_specific_hostnode

Spec == Init /\ [][Next]_vars

(***************************************************************************)
(* Properties.                                                             *)
(***************************************************************************)
Called == last.op # "none"

\* the transport failed: it raised while sending, or answered a non-2xx status
TransportFailed(outcome) ==
    outcome.kind = "exception" \/ outcome.status \notin 200..299

\* {"error": <non-empty string>}
IsErrorObject(v) ==
    /\ v.t = "dict"
    /\ "error" \in DOMAIN v.d
    /\ v.d.error.t = "str"
    /\ Len(v.d.error.s) > 0

\* where a request carries its fields: the body of a POST, the query of a GET
Carrier(q) == IF q.method = POST THEN q.data ELSE q.params

\* C1: every call returns a value, no exception reaches the caller, and after
\* a non-2xx status or a transport failure the value returned is a mapping with
\* an "error" key holding a non-empty string.
C1_ErrorObjectNeverException ==
    Called =>
        /\ last.raised = "none"
        /\ TransportFailed(last.outcome) => IsErrorObject(last.ret)

\* C2: every request a call issues carries api_key and api_token, in the body
\* of a POST and in the query of a GET, equal to the credentials given to the
\* constructor.
C2_EveryRequestCarriesCredentials ==
    \A k \in DOMAIN last.sent :
        LET c == Carrier(last.sent[k])
        IN  /\ c.t = "dict"
            /\ {"api_key", "api_token"} \subseteq DOMAIN c.d
            /\ c.d.api_key = ctor.api_key
            /\ c.d.api_token = ctor.api_token

\* C3: when the transport answers a 2xx status with a JSON body, the call
\* returns the decoded body unchanged.
C3_SuccessReturnsBody ==
    (Called /\ Succeeded(last.outcome)) =>
        /\ last.raised = "none"
        /\ last.ret = last.outcome.body

\* C4: two clients that differ only in the debug flag give the same result for
\* the same call, arguments and transport outcome: the same value returned, or
\* the same exception.
C4_DebugKeepsReturnValue ==
    Called =>
        /\ twinlast.raised = last.raised
        /\ twinlast.ret = last.ret

\* a call that returned a mapping, and that only one of the two clients printed
C4_Witness ==
    /\ Called
    /\ last.raised = "none"
    /\ last.ret.t = "dict"
    /\ last.printed # twinlast.printed

BoolText(b) ==
    IF b.b THEN PyStr(<<"t","r","u","e">>) ELSE PyStr(<<"f","a","l","s","e">>)

\* C5: a boolean flag is handed to the transport as the string "true" when it
\* is true and "false" when it is false: disassociate_resources of stop_server,
\* and requires_rtx and requires_gtx of list_available_hostnodes when given.
C5_BooleanFlagsLowercase ==
    /\ last.op = "stop_server" =>
         last.sent[1].data.d.disassociate_resources = BoolText(last.args.disassociate_resources)
    /\ last.op = "list_available_hostnodes" =>
         /\ last.args.requires_rtx.t = "bool" =>
              last.sent[1].params.d.requiresRTX = BoolText(last.args.requires_rtx)
         /\ last.args.requires_gtx.t = "bool" =>
              last.sent[1].params.d.requiresGTX = BoolText(last.args.requires_gtx)

\* C6: every body field and every query parameter handed to the transport is a
\* string.
C6_EveryFieldIsAString ==
    \A k \in DOMAIN last.sent :
        \A c \in {last.sent[k].data, last.sent[k].params} :
            c.t = "dict" => \A f \in DOMAIN c.d : c.d[f].t = "str"

IsDigit(c) == \E k \in DOMAIN DigitChars : DigitChars[k] = c
DigitValue(c) == (CHOOSE k \in DOMAIN DigitChars : DigitChars[k] = c) - 1

\* a decimal numeral with no sign and no leading zero
IsDecimal(cs) ==
    /\ Len(cs) > 0
    /\ \A k \in DOMAIN cs : IsDigit(cs[k])
    /\ Len(cs) > 1 => cs[1] # "0"

RECURSIVE DecimalValue(_)
DecimalValue(cs) ==
    IF Len(cs) = 0 THEN 0
    ELSE 10 * DecimalValue(SubSeq(cs, 1, Len(cs) - 1)) + DigitValue(cs[Len(cs)])

IsCommaSpace(cs, k) == k < Len(cs) /\ cs[k] = "," /\ cs[k + 1] = " "

\* the pieces of cs between its comma-space separators
RECURSIVE Pieces(_)
Pieces(cs) ==
    IF \E k \in DOMAIN cs : IsCommaSpace(cs, k)
    THEN LET k == CHOOSE k \in DOMAIN cs :
                      IsCommaSpace(cs, k) /\ \A j \in 1..(k - 1) : ~IsCommaSpace(cs, j)
         IN  <<SubSeq(cs, 1, k - 1)>> \o Pieces(SubSeq(cs, k + 2, Len(cs)))
    ELSE <<cs>>

\* field is "{", the numerals of ports in order separated by comma-space, "}"
IsPortField(field, ports) ==
    /\ field.t = "str"
    /\ Len(field.s) >= 2
    /\ field.s[1] = "{"
    /\ field.s[Len(field.s)] = "}"
    /\ LET inner == SubSeq(field.s, 2, Len(field.s) - 1)
       IN  IF Len(ports) = 0 THEN inner = <<>>
           ELSE /\ Len(Pieces(inner)) = Len(ports)
                /\ \A k \in DOMAIN ports :
                     /\ IsDecimal(Pieces(inner)[k])
                     /\ DecimalValue(Pieces(inner)[k]) = ports[k].i

\* C7: deploy_machine hands external_ports and internal_ports to the transport
\* as "{", the elements in their order, each written as a numeral and joined by
\* comma-space, "}", so piece k of either field is element k of its list.
C7_PortListFormat ==
    last.op = "deploy_machine" =>
        /\ IsPortField(last.sent[1].data.d.external_ports, last.args.external_ports)
        /\ IsPortField(last.sent[1].data.d.internal_ports, last.args.internal_ports)

\* deploy_machine with external_ports [80, 443] and internal_ports [443, 80]
C7_Witness ==
    /\ last.op = "deploy_machine"
    /\ last.args.external_ports = <<PyInt(80), PyInt(443)>>
    /\ last.args.internal_ports = <<PyInt(443), PyInt(80)>>
    /\ last.sent[1].data.d.external_ports = PyStr(<<"{","8","0",","," ","4","4","3","}">>)
    /\ last.sent[1].data.d.internal_ports = PyStr(<<"{","4","4","3",","," ","8","0","}">>)

\* C8: get_specific_hostnode(id) issues one GET request, to the base URL
\* followed by client/deploy/hostnodes/ and the id, with no body.
C8_GetSpecificHostnodeRequest ==
    last.op = "get_specific_hostnode" =>
        /\ Len(last.sent) = 1
        /\ last.sent[1].method = PyStr(<<"G","E","T">>)
        /\ last.sent[1].url.t = "str"
        /\ last.sent[1].url.s =
             self.base_url.s \o <<"c","l","i","e","n","t","/","d","e","p","l","o","y","/","h","o","s","t","n","o","d","e","s","/">> \o last.args.id.s
        /\ last.sent[1].data = None

\* get_specific_hostnode("abc-123")
C8_Witness ==
    /\ last.op = "get_specific_hostnode"
    /\ last.args.id = PyStr(<<"a","b","c","-","1","2","3">>)
    /\ last.sent[1].url = PyStr(<<"h","t","t","p","s",":","/","/","m","a","r","k","e","t","p","l","a","c","e",".","t","e","n","s","o","r","d","o","c","k",".","c","o","m","/","a","p","i","/","v","0","/","c","l","i","e","n","t","/","d","e","p","l","o","y","/","h","o","s","t","n","o","d","e","s","/","a","b","c","-","1","2","3">>)

\* every call so far handed exactly one request to the transport
OneRequestPerCall ==
    /\ nsent = ncalls
    /\ Called => Len(last.sent) = 1

\* C9: every call issues exactly one request, whether it succeeds or fails, and
\* a failure is reported to the caller as the value the call returns.
C9_OneRequestFailureReturned ==
    /\ OneRequestPerCall
    /\ (Called /\ TransportFailed(last.outcome)) =>
         /\ last.raised = "none"
         /\ IsErrorObject(last.ret)

\* C10: after any sequence of calls the client's api_key, api_token, base_url
\* and debug flag are those set at construction.
C10_ClientStateUnchanged ==
    /\ self = [base_url |-> PyStr(<<"h","t","t","p","s",":","/","/","m","a","r","k","e","t","p","l","a","c","e",".","t","e","n","s","o","r","d","o","c","k",".","c","o","m","/","a","p","i","/","v","0","/">>),
               api_key |-> ctor.api_key, api_token |-> ctor.api_token, debug |-> ctor.debug]
    /\ twin = [self EXCEPT !.debug = PyBool(~ctor.debug.b)]

\* at least two calls were made, some answered with success and some with failure
C10_Witness ==
    /\ ncalls >= 2
    /\ nfail >= 1
    /\ nfail < ncalls

====
